---- MODULE Spec2Model ----
(***************************************************************************)
(* A model of the fxlog logger factory (src/src/index.ts).                 *)
(*                                                                         *)
(* A JavaScript string is a sequence of one-character strings; a glyph or  *)
(* an ANSI escape sequence written by chalk is one element of that         *)
(* sequence.  A JavaScript Map is the sequence of its entries in insertion *)
(* order.  Every logger instance created by createLogger is one element of *)
(* the sequence loggers and owns the variables its closure captures.       *)
(***************************************************************************)
EXTENDS Integers, Sequences, FiniteSets, TLC

VARIABLES
  loggers,   \* the logger instances, in creation order; loggers[1] is the root
  now,       \* the wall clock read by Date.now() and new Date(), milliseconds
  console,   \* the lines the latest step wrote with console.log
  ret,       \* the value the latest step returned to its caller, or what it threw
  origin,    \* history: how each logger instance was created
  running,   \* history: per logger, the labels time() has returned for which
             \* no timeEnd has returned a result since
  autoRun,   \* history: per logger, the number of label-less time() calls made
             \* in a row since the timer map was empty, or -1
  startedAt, \* history: per logger, the clock at the latest time() call that
             \* stored each label, until a timeEnd takes the label away
  budget,    \* history: the number of steps still to be written down
  calls,     \* history: the logging and timer calls made while budget lasted
  output     \* history: every line written to the console while budget lasted

vars == <<loggers, now, console, ret, origin, running, autoRun, startedAt,
          budget, calls, output>>

(***************************************************************************)
(* Bounds of the model.                                                    *)
(***************************************************************************)
MaxObjects == 3
MaxClock == 50
\* the clock of the runs that measure long spans
MaxLongClock == 1515
\* the calls of a run whose calls and lines are kept
MaxSteps == 5

(***************************************************************************)
(* Strings.                                                                *)
(***************************************************************************)
Lower == <<"a", "b", "c", "d", "e", "f", "g", "h", "i", "j", "k", "l", "m",
           "n", "o", "p", "q", "r", "s", "t", "u", "v", "w", "x", "y", "z">>

Upper == <<"A", "B", "C", "D", "E", "F", "G", "H", "I", "J", "K", "L", "M",
           "N", "O", "P", "Q", "R", "S", "T", "U", "V", "W", "X", "Y", "Z">>

Digits == <<"0", "1", "2", "3", "4", "5", "6", "7", "8", "9">>

\* String.prototype.toUpperCase, one character
toUpperChar(c) ==
  IF \E i \in 1..Len(Lower) : Lower[i] = c
  THEN Upper[CHOOSE i \in 1..Len(Lower) : Lower[i] = c]
  ELSE c

\* String.prototype.toUpperCase
toUpperCase(s) == [i \in 1..Len(s) |-> toUpperChar(s[i])]

\* String.prototype.startsWith
startsWith(s, p) == Len(s) >= Len(p) /\ SubSeq(s, 1, Len(p)) = p

\* String.prototype.padEnd with the default fill (a space)
padEnd(s, n) ==
  IF Len(s) >= n THEN s ELSE s \o [i \in 1..(n - Len(s)) |-> " "]

\* String.prototype.padStart with fill "0"
RECURSIVE padStart0(_, _)
padStart0(s, n) == IF Len(s) >= n THEN s ELSE padStart0(<<"0">> \o s, n)

\* Number.prototype.toString for a natural number
RECURSIVE toString(_)
toString(n) ==
  IF n < 10 THEN <<Digits[n + 1]>>
  ELSE toString(n \div 10) \o <<Digits[(n % 10) + 1]>>

\* Array.prototype.join
RECURSIVE join(_, _)
join(parts, sep) ==
  IF Len(parts) = 0 THEN <<>>
  ELSE IF Len(parts) = 1 THEN parts[1]
  ELSE parts[1] \o sep \o join(Tail(parts), sep)

\* String.prototype.includes
includes(s, f) ==
  \E i \in 1..(Len(s) - Len(f) + 1) : SubSeq(s, i, i + Len(f) - 1) = f

\* Array.prototype.includes
arrayIncludes(xs, x) == \E i \in 1..Len(xs) : xs[i] = x

\* chalk.<style>(text): the text between an opening and a closing escape
\* sequence; chalk returns the empty string unchanged
chalk(style, s) ==
  IF Len(s) = 0 THEN s ELSE <<"<" \o style \o ">">> \o s \o <<"</" \o style \o ">">>

(***************************************************************************)
(* Values.                                                                 *)
(***************************************************************************)
Undefined == [k |-> "undefined", v |-> <<>>]
Str(s) == [k |-> "string", v |-> s]
Arr(xs) == [k |-> "array", v |-> xs]
Num(n) == [k |-> "number", v |-> n]
Fn(result) == [k |-> "function", v |-> result]

\* JavaScript truthiness of a string, an array or undefined
truthy(x) ==
  CASE x.k = "undefined" -> FALSE
    [] x.k = "string" -> Len(x.v) > 0
    [] OTHER -> TRUE

s_log == <<"l", "o", "g">>
s_success == <<"s", "u", "c", "c", "e", "s", "s">>
s_info == <<"i", "n", "f", "o">>
s_warn == <<"w", "a", "r", "n">>
s_error == <<"e", "r", "r", "o", "r">>
s_fxlog == <<"f", "x", "l", "o", "g">>
s_timer_ == <<"t", "i", "m", "e", "r", "_">>
s_TIMER == <<"[", "T", "I", "M", "E", "R", "]">>
s_Initialized == <<"I", "n", "i", "t", "i", "a", "l", "i", "z", "e", "d", " ",
                   "t", "i", "m", "e", "r", ".", ".", ".">>
s_RunFor == <<"T", "i", "m", "e", "r", " ", "r", "u", "n", " ", "f", "o", "r", ":">>
s_anonymous == <<"a", "n", "o", "n", "y", "m", "o", "u", "s">>

\* a badge or color that is null; both are only ever tested for truthiness
s_PrefixError == <<"P", "r", "e", "f", "i", "x", " ", "e", "r", "r", "o", "r">>
s_TypeError == <<"T", "y", "p", "e", "E", "r", "r", "o", "r">>
s_debug == <<"d", "e", "b", "u", "g">>
s_verylong == <<"v", "e", "r", "y", "l", "o", "n", "g">>
s_UnknownLogType == <<"U", "n", "k", "n", "o", "w", "n", " ", "l", "o", "g", " ", "t", "y", "p", "e">>
s_care == <<"c", "a", "r", "e">>

\* the logging methods the facade has
Methods == {"log", "info", "success", "warn", "error"}

Null == <<>>

\* the colors chalk defines, among those the configurations use
ChalkColors == {"green", "blue", "yellowBright", "red", "yellow"}

defaultConfig ==
  [scope |-> Str(s_fxlog),
   presets |-> <<"filename", "date", "datetime">>,
   colorScope |-> "all",
   underline |-> <<"scope", "label", "message", "prefix", "suffix">>,
   uppercase |-> <<"label">>,
   types |-> [log |-> [badge |-> Null, color |-> "", label |-> s_log],
              success |-> [badge |-> <<"{tick}">>, color |-> "green", label |-> s_success],
              info |-> [badge |-> <<"{info}">>, color |-> "blue", label |-> s_info],
              warn |-> [badge |-> <<"{warning}">>, color |-> "yellowBright", label |-> s_warn],
              error |-> [badge |-> <<"{cross}">>, color |-> "red", label |-> s_error]]]

\* { ...a, ...b } for objects given as functions on their own keys
spread(a, b) ==
  [f \in (DOMAIN a) \cup (DOMAIN b) |-> IF f \in DOMAIN b THEN b[f] ELSE a[f]]

has(config, f) == f \in DOMAIN config

\* a merge in which the user's types take the place of the default ones
mergeConfig_whole(userConfig) ==
  LET top == spread(defaultConfig, userConfig)
  IN [top EXCEPT !.types = IF has(userConfig, "types") THEN userConfig.types
                           ELSE defaultConfig.types]

\* the merge at the head of createLogger
mergeConfig(userConfig) ==
  LET top == spread(defaultConfig, userConfig)
      userTypes == IF has(userConfig, "types") THEN userConfig.types ELSE <<>>
  IN [top EXCEPT !.types = spread(defaultConfig.types, userTypes)]

Max(S) == CHOOSE x \in S : \A y \in S : y <= x

\* the length of longestLabel
longestLabelLength(config) ==
  Max({0} \cup {Len(config.types[t].label) : t \in DOMAIN config.types})

\* a construction that takes the default scope when the scope is undefined
createLogger_defaultScope(userConfig) ==
  LET config == mergeConfig(userConfig) IN
  [config |-> config,
   currentScope |-> IF config.scope = Undefined THEN defaultConfig.scope ELSE config.scope,
   isDisabled |-> IF has(config, "disabled") THEN config.disabled ELSE FALSE,
   timers |-> <<>>,
   longestLabel |-> longestLabelLength(config)]

\* the state a createLogger call closes over
createLogger(userConfig) ==
  LET config == mergeConfig(userConfig) IN
  [config |-> config,
   currentScope |-> config.scope,
   isDisabled |-> IF has(config, "disabled") THEN config.disabled ELSE FALSE,
   timers |-> <<>>,
   longestLabel |-> longestLabelLength(config)]

(***************************************************************************)
(* The clock.  A Date is taken in a time zone without offset.              *)
(***************************************************************************)
MsPerDay == 86400000

isLeap(y) == (y % 4 = 0 /\ y % 100 # 0) \/ y % 400 = 0

daysInYear(y) == IF isLeap(y) THEN 366 ELSE 365

daysInMonth(y, m) ==
  IF m = 2 THEN (IF isLeap(y) THEN 29 ELSE 28)
  ELSE IF m \in {4, 6, 9, 11} THEN 30 ELSE 31

\* the year of day d (days since 1 January of year y), and the day in it
RECURSIVE yearOf(_, _)
yearOf(y, d) ==
  IF d < daysInYear(y) THEN <<y, d>> ELSE yearOf(y + 1, d - daysInYear(y))

RECURSIVE monthOf(_, _, _)
monthOf(y, m, d) ==
  IF d < daysInMonth(y, m) THEN <<m, d>> ELSE monthOf(y, m + 1, d - daysInMonth(y, m))

\* new Date(): the fields the getters return (getMonth counts from 0)
Date(t) ==
  LET yd == yearOf(1970, t \div MsPerDay)
      md == monthOf(yd[1], 1, yd[2])
      ms == t % MsPerDay
  IN [getFullYear |-> yd[1], getMonth |-> md[1] - 1, getDate |-> md[2] + 1,
      getHours |-> ms \div 3600000, getMinutes |-> (ms \div 60000) % 60,
      getSeconds |-> (ms \div 1000) % 60, getMilliseconds |-> ms % 1000]

formatDate(t) ==
  LET date == Date(t) IN
  join(<<toString(date.getFullYear), toString(date.getMonth + 1),
         toString(date.getDate)>>, <<"-">>)

formatDateTime(t) ==
  LET date == Date(t)
      timeStr == join(<<padStart0(toString(date.getHours), 2),
                        padStart0(toString(date.getMinutes), 2),
                        padStart0(toString(date.getSeconds), 2)>>, <<":">>)
  IN formatDate(t) \o <<" ">> \o timeStr

\* path.basename of the first stack frame outside the module, if there is one
getFilename(caller) == IF Len(caller) > 0 THEN caller ELSE s_anonymous

shouldApplyStyle(element, config) ==
  arrayIncludes(IF has(config, "underline") THEN config.underline ELSE <<>>, element)

shouldUppercase(element, config) ==
  arrayIncludes(IF has(config, "uppercase") THEN config.uppercase ELSE <<>>, element)

(***************************************************************************)
(* The prefix and the message.                                             *)
(***************************************************************************)
\* a function that throws an error, by the message of the error
Throws(e) == [k |-> "throw", v |-> e]

\* config.prefix is a function and calling it throws
prefixThrows(config) ==
  /\ has(config, "prefix")
  /\ config.prefix.k = "function"
  /\ config.prefix.v.k = "throw"

\* the value of config.prefix, a function being called
userPrefixOf(config) ==
  IF ~has(config, "prefix") THEN Undefined
  ELSE IF config.prefix.k = "function" THEN config.prefix.v
  ELSE config.prefix

\* the parts pushed for the user's prefix
userPrefixParts(config) ==
  LET userPrefix == userPrefixOf(config) IN
  IF userPrefix.k = "undefined" \/ Len(userPrefix.v) = 0 THEN <<>>
  ELSE IF userPrefix.k = "array" THEN userPrefix.v ELSE <<userPrefix.v>>

\* the part one preset contributes; empty when the preset has no case
presetValue(item, config, t, caller) ==
  LET value == CASE item = "date" -> <<"[">> \o formatDate(t) \o <<"]">>
                 [] item = "datetime" -> <<"[">> \o formatDateTime(t) \o <<"]">>
                 [] item = "filename" -> <<"[">> \o getFilename(caller) \o <<"]">>
                 [] OTHER -> <<>>
  IN IF Len(value) > 0 /\ shouldApplyStyle("prefix", config)
     THEN chalk("underline", value) ELSE value

RECURSIVE presetParts(_, _, _, _)
presetParts(presets, config, t, caller) ==
  IF Len(presets) = 0 THEN <<>>
  ELSE LET value == presetValue(Head(presets), config, t, caller) IN
       (IF Len(value) > 0 THEN <<value>> ELSE <<>>)
         \o presetParts(Tail(presets), config, t, caller)

\* tokens in the reverse of the scope order
scopeTokens_reversed(currentScope, config) ==
  LET scopes == IF currentScope.k = "array" THEN currentScope.v ELSE <<currentScope.v>>
  IN [i \in 1..Len(scopes) |->
        <<"[">> \o (IF shouldUppercase("scope", config)
                    THEN toUpperCase(scopes[Len(scopes) + 1 - i])
                    ELSE scopes[Len(scopes) + 1 - i]) \o <<"]">>]

\* the scopes as bracketed tokens, before they are joined
scopeTokens(currentScope, config) ==
  LET scopes == IF currentScope.k = "array" THEN currentScope.v ELSE <<currentScope.v>>
  IN [i \in 1..Len(scopes) |->
        <<"[">> \o (IF shouldUppercase("scope", config)
                    THEN toUpperCase(scopes[i]) ELSE scopes[i]) \o <<"]">>]

\* the part pushed for the scope
scopeParts(currentScope, config) ==
  IF ~truthy(currentScope) THEN <<>>
  ELSE LET scopeStr == join(scopeTokens(currentScope, config), <<" ">>) IN
       <<IF shouldApplyStyle("scope", config) THEN chalk("underline", scopeStr) ELSE scopeStr>>

\* a prefix whose scope part comes before the parts of the presets
buildPrefix_scopeFirst(L, t, caller) ==
  userPrefixParts(L.config)
    \o scopeParts(L.currentScope, L.config)
    \o presetParts(IF has(L.config, "presets") THEN L.config.presets ELSE <<>>,
                   L.config, t, caller)

buildPrefix(L, t, caller) ==
  userPrefixParts(L.config)
    \o presetParts(IF has(L.config, "presets") THEN L.config.presets ELSE <<>>,
                   L.config, t, caller)
    \o scopeParts(L.currentScope, L.config)

\* util.inspect of a number, and a string argument passed through
stringify(arg) == IF arg.k = "string" THEN arg.v ELSE toString(arg.v)

\* the test at the head of buildMessage: config.types has no entry for type
unknownLogType(config, type) == type \notin DOMAIN config.types

buildMessage(L, type, args, t, caller) ==
  LET typeConfig == L.config.types[type]
      prefixParts == buildPrefix(L, t, caller)
      label == IF shouldUppercase("label", L.config)
               THEN toUpperCase(typeConfig.label) ELSE typeConfig.label
      badgeAndlabel == IF Len(typeConfig.badge) > 0
                       THEN typeConfig.badge \o <<" ">> \o label ELSE label
      paddedLabel == padEnd(badgeAndlabel, L.longestLabel + 2)
      styledPaddedLabel == IF shouldApplyStyle("label", L.config)
                           THEN chalk("underline", paddedLabel) ELSE paddedLabel
      coloredLabel == IF typeConfig.color # "" /\ typeConfig.color \in ChalkColors
                      THEN chalk(typeConfig.color, styledPaddedLabel)
                      ELSE styledPaddedLabel
      messageContent == join([i \in 1..Len(args) |-> stringify(args[i])], <<" ">>)
      styledMessage == IF shouldApplyStyle("message", L.config)
                       THEN chalk("underline", messageContent) ELSE messageContent
  IN join((IF Len(prefixParts) > 0 THEN <<join(prefixParts, <<" ">>)>> ELSE <<>>)
            \o <<coloredLabel, styledMessage>>, <<" ">>)

(***************************************************************************)
(* The timer map.                                                          *)
(***************************************************************************)
mapHas(m, key) == \E e \in 1..Len(m) : m[e].key = key

mapGet(m, key) == m[CHOOSE e \in 1..Len(m) : m[e].key = key].value

\* a set that leaves the value of a present key as it is
mapSet_keepsFirst(m, key, value) ==
  IF mapHas(m, key) THEN m ELSE Append(m, [key |-> key, value |-> value])

\* Map.prototype.set: a present key keeps its place, a new key goes last
mapSet(m, key, value) ==
  IF mapHas(m, key)
  THEN [e \in 1..Len(m) |-> IF m[e].key = key THEN [key |-> key, value |-> value] ELSE m[e]]
  ELSE Append(m, [key |-> key, value |-> value])

\* a delete that removes nothing
mapDelete_kept(m, key) == m

mapDelete(m, key) == SelectSeq(m, LAMBDA e : e.key # key)

mapKeys(m) == [e \in 1..Len(m) |-> m[e].key]

\* timerKeys.find(key => key.startsWith('timer_')) || timerKeys[timerKeys.length - 1]
findTimerKey(timerKeys) ==
  IF \E e \in 1..Len(timerKeys) : startsWith(timerKeys[e], s_timer_)
  THEN timerKeys[CHOOSE e \in 1..Len(timerKeys) :
                   /\ startsWith(timerKeys[e], s_timer_)
                   /\ \A d \in 1..(e - 1) : ~startsWith(timerKeys[d], s_timer_)]
  ELSE timerKeys[Len(timerKeys)]

\* a resolution that falls back on the tracked timers for a label not tracked
resolveTimerLabel_fallback(label, timers) ==
  LET timerLabel == IF (~truthy(label) \/ ~mapHas(timers, label.v)) /\ Len(timers) > 0
                    THEN Str(findTimerKey(mapKeys(timers))) ELSE label
  IN IF ~truthy(timerLabel) \/ ~mapHas(timers, timerLabel.v) THEN Undefined ELSE timerLabel

\* the label timeEnd resolves, Undefined when it ends nothing
resolveTimerLabel(label, timers) ==
  LET timerLabel == IF ~truthy(label) /\ Len(timers) > 0
                    THEN Str(findTimerKey(mapKeys(timers))) ELSE label
  IN IF ~truthy(timerLabel) \/ ~mapHas(timers, timerLabel.v) THEN Undefined ELSE timerLabel

\* a generated label that does not count the tracked timers
timerLabelOf_fixed(label, timers) ==
  IF truthy(label) THEN label.v ELSE s_timer_ \o toString(0)

\* the label time() stores under
timerLabelOf(label, timers) ==
  IF truthy(label) THEN label.v ELSE s_timer_ \o toString(Len(timers))

\* the number of binary digits of a natural number
RECURSIVE bitLength(_)
bitLength(q) == IF q = 0 THEN 0 ELSE 1 + bitLength(q \div 2)

\* what is left of rem / 1000 after k more binary digits of it are taken
RECURSIVE tailAfter(_, _)
tailAfter(rem, k) == IF k = 0 THEN rem ELSE tailAfter((2 * rem) % 1000, k - 1)

\* span / 1000 as a double lies below the quotient: the 53 digits of the double
\* leave a tail under half a unit of the last digit (a tail of exactly half a
\* unit cannot occur: 1000 has three factors 2 and more digits than that are taken)
quotientRoundsDown(span) ==
  LET rem == tailAfter(span % 1000, 53 - bitLength(span \div 1000))
  IN rem # 0 /\ 2 * rem < 1000

\* (span / 1000).toFixed(2), for span >= 1000: the hundredth nearest to the
\* double, the larger of two that are equally near
toFixed2(span) ==
  LET last == span % 10
      cents == IF last < 5 \/ (last = 5 /\ quotientRoundsDown(span))
               THEN span \div 10 ELSE (span \div 10) + 1
  IN toString(cents \div 100) \o <<".">> \o padStart0(toString(cents % 100), 2)

\* a format that takes one second for milliseconds still
formatSpan_late(span) ==
  IF span <= 1000 THEN toString(span) \o <<"m", "s">> ELSE toFixed2(span) \o <<"s">>

formatSpan(span) ==
  IF span < 1000 THEN toString(span) \o <<"m", "s">> ELSE toFixed2(span) \o <<"s">>

timeLine(L, timerLabel, t, caller) ==
  join(buildPrefix(L, t, caller)
         \o <<s_TIMER, chalk("green", <<"{play}">>), chalk("green", timerLabel),
              s_Initialized>>, <<" ">>)

timeEndLine(L, timerLabel, span, t, caller) ==
  join(buildPrefix(L, t, caller)
         \o <<s_TIMER, chalk("red", <<"{stop}">>), chalk("red", timerLabel),
              s_RunFor, chalk("yellow", formatSpan(span))>>, <<" ">>)

\* a scope call that drops the scopes of its caller
newScopesOf_dropped(currentScope, scopes) == Arr(scopes)

\* the scope a scope(...scopes) call passes to createLogger
newScopesOf(currentScope, scopes) ==
  IF currentScope.k = "array" THEN Arr(currentScope.v \o scopes)
  ELSE IF Len(scopes) = 1 THEN Arr(<<scopes[1]>>)
  ELSE Arr(scopes)

(***************************************************************************)
(* Inputs of the calls.                                                    *)
(***************************************************************************)
s_a == <<"a">>
s_b == <<"b">>
s_m == <<"m">>
s_p == <<"p">>
s_r == <<"r">>
s_s == <<"s">>
s_x == <<"x">>
s_caller == <<"t", ".", "t", "s">>

NumConfigs == 3

\* the configurations the root logger is created from
UserConfig(n) ==
  CASE n = 1 -> [f \in {} |-> Undefined]
    [] n = 2 -> [presets |-> <<>>, scope |-> Undefined, disabled |-> TRUE,
                 prefix |-> Str(s_p)]
    [] OTHER -> [presets |-> <<"date">>, scope |-> Arr(<<s_r, s_s>>),
                 underline |-> <<"scope">>, uppercase |-> <<"scope">>,
                 prefix |-> Fn(Arr(<<s_p, s_p>>)),
                 types |-> [debug |-> [badge |-> <<"{bug}">>, color |-> "yellow",
                                       label |-> s_debug],
                            warn |-> [badge |-> Null, color |-> "red", label |-> s_care]]]

\* the arguments of a createLogger call: none, undefined, null, {} or an object
Absent == [k |-> "absent", v |-> <<>>]
UndefinedArg == [k |-> "undefined", v |-> <<>>]
NullArg == [k |-> "null", v |-> <<>>]
EmptyObject == [k |-> "empty", v |-> <<>>]
Object(userConfig) == [k |-> "object", v |-> userConfig]

\* the default value of the parameter, taken when no argument or undefined is passed
userConfigOf(arg) == IF arg.k \in {"absent", "undefined"} THEN EmptyObject ELSE arg

\* userConfig.types of a null userConfig is a TypeError
constructThrows(arg) == userConfigOf(arg).k = "null"

\* the arguments one logger is constructed from, when the argument is what is looked at
RootArgs == {Absent, UndefinedArg, NullArg, EmptyObject, Object(defaultConfig)}

TypeInputs == {"log", "warn"}
\* the method names the program calls: the kinds above and one the user has added
NameInputs == TypeInputs \cup {"debug"}
ArgInputs == {<<Str(s_m), Num(7)>>}
LabelInputs == {Undefined, Str(<<>>), Str(s_x)}
ScopeInputs == {<<>>, <<s_a>>, <<s_b>>, <<s_a, s_b>>}
ClockStep == 50
\* the steps of the clock in the runs that measure long spans
LongStep == 500
OddStep == 505

Ids == 1..Len(loggers)

RetUndefined == [k |-> "undefined", label |-> <<>>, span |-> 0, id |-> 0]
RetString(s) == [k |-> "string", label |-> s, span |-> 0, id |-> 0]
RetResult(l, n) == [k |-> "result", label |-> l, span |-> n, id |-> 0]
RetLogger(j) == [k |-> "logger", label |-> <<>>, span |-> 0, id |-> j]
\* an exception that reaches the caller, by its message
RetThrow(e) == [k |-> "throw", label |-> e, span |-> 0, id |-> 0]

\* the closures and the map entries alive
Objects ==
  LET RECURSIVE sum(_)
      sum(i) == IF i = 0 THEN 0 ELSE 1 + Len(loggers[i].timers) + sum(i - 1)
  IN sum(Len(loggers))

(***************************************************************************)
(* The history variables.                                                  *)
(***************************************************************************)
\* a step that is no logging or timer call
Quiet ==
  IF budget > 0
  THEN budget' = budget - 1 /\ UNCHANGED <<calls, output>>
  ELSE UNCHANGED <<budget, calls, output>>

\* a console that puts the lines of a call in front of the lines written before
Recorded_stacked(call, lines) ==
  IF budget > 0
  THEN /\ budget' = budget - 1
       /\ calls' = Append(calls, call)
       /\ output' = lines \o output
  ELSE UNCHANGED <<budget, calls, output>>

\* a logging or timer call and the lines it wrote
Recorded(call, lines) ==
  IF budget > 0
  THEN /\ budget' = budget - 1
       /\ calls' = Append(calls, call)
       /\ output' = output \o lines
  ELSE UNCHANGED <<budget, calls, output>>

Call(i, op, type, args, label, r) ==
  [id |-> i, op |-> op, type |-> type, args |-> args, label |-> label, at |-> now,
   enabled |-> ~loggers[i].isDisabled, ret |-> r]

\* the clock of label, among the entries of one logger
startOf(entries, label) == (CHOOSE e \in entries : e.label = label).at

started(entries, label, t) ==
  {e \in entries : e.label # label} \cup {[label |-> label, at |-> t]}

(***************************************************************************)
(* The state after the root logger is constructed.                         *)
(***************************************************************************)
\* createLogger(arg) as the first call of the program
RootWith(arg) ==
  /\ loggers = IF constructThrows(arg) THEN <<>> ELSE <<createLogger(userConfigOf(arg).v)>>
  /\ ret = IF constructThrows(arg) THEN RetThrow(s_TypeError) ELSE RetLogger(1)
  /\ now = 0
  /\ console = <<>>
  /\ origin = <<[parent |-> 0, op |-> "createLogger", names |-> <<>>, chain |-> <<>>,
                 given |-> arg.k]>>
  /\ running = <<{}>>
  /\ autoRun = <<0>>
  /\ startedAt = <<{}>>
  /\ calls = <<>>
  /\ output = <<>>

Init ==
  /\ \E n \in 1..NumConfigs : RootWith(Object(UserConfig(n)))
  /\ budget = 0

(***************************************************************************)
(* The facade.                                                             *)
(***************************************************************************)
\* a log function that does not look at isDisabled
LogFn_always(i, type, args, caller) ==
  /\ ret' = RetUndefined
  /\ UNCHANGED <<loggers, now, origin, running, autoRun, startedAt>>
  /\ console' = <<buildMessage(loggers[i], type, args, now, caller)>>
  /\ Recorded(Call(i, "log", type, args, <<>>, ret'), console')

\* log, info, success, warn, error: the function createLogFn(type) returns;
\* a name the facade does not have is no function, and calling it throws
\* a log function that catches what the prefix function throws and writes nothing
LogFn_swallows(i, type, args, caller) ==
  LET L == loggers[i] IN
  /\ UNCHANGED <<loggers, now, origin, running, autoRun, startedAt>>
  /\ IF type \notin Methods
     THEN /\ ret' = RetThrow(s_TypeError)
          /\ console' = <<>>
          /\ Quiet
     ELSE /\ ret' = RetUndefined
          /\ console' = IF L.isDisabled \/ prefixThrows(L.config) THEN <<>>
                        ELSE <<buildMessage(L, type, args, now, caller)>>
          /\ Recorded(Call(i, "log", type, args, <<>>, ret'), console')

LogFn(i, type, args, caller) ==
  LET L == loggers[i] IN
  /\ UNCHANGED <<loggers, now, origin, running, autoRun, startedAt>>
  /\ IF type \notin Methods
     THEN /\ ret' = RetThrow(s_TypeError)
          /\ console' = <<>>
          /\ Quiet
     ELSE /\ ret' = IF ~L.isDisabled /\ prefixThrows(L.config)
                    THEN RetThrow(s_PrefixError) ELSE RetUndefined
          /\ console' = IF L.isDisabled \/ prefixThrows(L.config) THEN <<>>
                        ELSE <<buildMessage(L, type, args, now, caller)>>
          /\ Recorded(Call(i, "log", type, args, <<>>, ret'), console')

\* a time() that stores the timer before it looks at isDisabled
Time_storesFirst(i, label, caller) ==
  LET L == loggers[i]
      timerLabel == timerLabelOf(label, L.timers)
  IN /\ mapHas(L.timers, timerLabel) \/ Objects < MaxObjects
     /\ ret' = IF L.isDisabled THEN RetString(<<>>) ELSE RetString(timerLabel)
     /\ loggers' = [loggers EXCEPT ![i].timers = mapSet(L.timers, timerLabel, now)]
     /\ console' = IF L.isDisabled THEN <<>> ELSE <<timeLine(L, timerLabel, now, caller)>>
     /\ running' = IF L.isDisabled THEN running
                   ELSE [running EXCEPT ![i] = @ \cup {timerLabel}]
     /\ autoRun' = [autoRun EXCEPT ![i] = -1]
     /\ startedAt' = [startedAt EXCEPT ![i] = started(@, timerLabel, now)]
     /\ UNCHANGED <<now, origin>>
     /\ Recorded(Call(i, "time", "", <<>>, timerLabel, ret'), console')

Time(i, label, caller) ==
  LET L == loggers[i]
      timerLabel == timerLabelOf(label, L.timers)
  IN IF L.isDisabled
     THEN /\ ret' = RetString(<<>>)
          /\ console' = <<>>
          /\ UNCHANGED <<loggers, now, origin, running, autoRun, startedAt>>
          /\ Recorded(Call(i, "time", "", <<>>, <<>>, ret'), console')
     ELSE /\ mapHas(L.timers, timerLabel) \/ Objects < MaxObjects
          /\ ret' = IF prefixThrows(L.config)
                    THEN RetThrow(s_PrefixError) ELSE RetString(timerLabel)
          /\ loggers' = [loggers EXCEPT ![i].timers = mapSet(L.timers, timerLabel, now)]
          /\ console' = IF prefixThrows(L.config) THEN <<>>
                        ELSE <<timeLine(L, timerLabel, now, caller)>>
          /\ running' = IF prefixThrows(L.config) THEN running
                        ELSE [running EXCEPT ![i] = @ \cup {timerLabel}]
          /\ autoRun' = [autoRun EXCEPT ![i] =
                           IF ~truthy(label) /\ @ >= 0 /\ ~prefixThrows(L.config)
                           THEN @ + 1 ELSE -1]
          /\ startedAt' = [startedAt EXCEPT ![i] = started(@, timerLabel, now)]
          /\ UNCHANGED <<now, origin>>
          /\ Recorded(Call(i, "time", "", <<>>, timerLabel, ret'), console')

\* a timeEnd() that takes the timer away before it looks at isDisabled
TimeEnd_deletesFirst(i, label, caller) ==
  LET L == loggers[i]
      timerLabel == resolveTimerLabel(label, L.timers)
  IN IF timerLabel.k = "undefined"
     THEN /\ ret' = RetUndefined
          /\ console' = <<>>
          /\ autoRun' = [autoRun EXCEPT ![i] = IF Len(L.timers) = 0 THEN 0 ELSE -1]
          /\ UNCHANGED <<loggers, now, origin, running, startedAt>>
          /\ Recorded(Call(i, "timeEnd", "", <<>>, <<>>, ret'), console')
     ELSE LET span == now - mapGet(L.timers, timerLabel.v)
          IN /\ ret' = IF L.isDisabled THEN RetUndefined ELSE RetResult(timerLabel.v, span)
             /\ loggers' = [loggers EXCEPT ![i].timers = mapDelete(L.timers, timerLabel.v)]
             /\ console' = IF L.isDisabled THEN <<>>
                           ELSE <<timeEndLine(L, timerLabel.v, span, now, caller)>>
             /\ running' = [running EXCEPT ![i] = @ \ {timerLabel.v}]
             /\ autoRun' = [autoRun EXCEPT ![i] = -1]
             /\ startedAt' = [startedAt EXCEPT ![i] = {e \in @ : e.label # timerLabel.v}]
             /\ UNCHANGED <<now, origin>>
             /\ Recorded(Call(i, "timeEnd", "", <<>>, timerLabel.v, ret'), console')

TimeEnd(i, label, caller) ==
  LET L == loggers[i]
      timerLabel == resolveTimerLabel(label, L.timers)
  IN IF L.isDisabled \/ timerLabel.k = "undefined"
     THEN /\ ret' = RetUndefined
          /\ console' = <<>>
          /\ autoRun' = [autoRun EXCEPT ![i] =
                           IF L.isDisabled THEN @
                           ELSE IF Len(L.timers) = 0 THEN 0 ELSE -1]
          /\ UNCHANGED <<loggers, now, origin, running, startedAt>>
          /\ Recorded(Call(i, "timeEnd", "", <<>>, <<>>, ret'), console')
     ELSE LET startTime == mapGet(L.timers, timerLabel.v)
              span == now - startTime
          IN /\ ret' = IF prefixThrows(L.config)
                       THEN RetThrow(s_PrefixError) ELSE RetResult(timerLabel.v, span)
             /\ loggers' = [loggers EXCEPT ![i].timers = mapDelete(L.timers, timerLabel.v)]
             /\ console' = IF prefixThrows(L.config) THEN <<>>
                           ELSE <<timeEndLine(L, timerLabel.v, span, now, caller)>>
             /\ running' = IF prefixThrows(L.config) THEN running
                           ELSE [running EXCEPT ![i] = @ \ {timerLabel.v}]
             /\ autoRun' = [autoRun EXCEPT ![i] =
                              IF Len(loggers'[i].timers) = 0 THEN 0 ELSE -1]
             /\ startedAt' = [startedAt EXCEPT ![i] = {e \in @ : e.label # timerLabel.v}]
             /\ UNCHANGED <<now, origin>>
             /\ Recorded(Call(i, "timeEnd", "", <<>>, timerLabel.v, ret'), console')

\* the ends of a derivation that no mistake in it changes
Derived(i, op, names) ==
  /\ console' = <<>>
  /\ ret' = RetLogger(Len(loggers) + 1)
  /\ origin' = Append(origin,
                      [parent |-> i, op |-> op, names |-> names,
                       chain |-> IF op = "scope" THEN origin[i].chain \o names ELSE <<>>,
                       given |-> "object"])
  /\ running' = Append(running, {})
  /\ autoRun' = Append(autoRun, 0)
  /\ startedAt' = Append(startedAt, {})
  /\ UNCHANGED now
  /\ Quiet

\* a derivation that passes on the flag of the configuration, not the current one
Derive_configFlag(i, op, names, scope) ==
  /\ Objects < MaxObjects
  /\ loggers' = Append(loggers, createLogger(spread(loggers[i].config, [scope |-> scope])))
  /\ Derived(i, op, names)

\* a derivation whose logger goes on with the timer map of its caller
Derive_sharedTimers(i, op, names, scope) ==
  LET L == loggers[i] IN
  /\ Objects < MaxObjects
  /\ loggers' = Append(loggers,
                       [createLogger(spread(L.config,
                                            [scope |-> scope, disabled |-> L.isDisabled]))
                          EXCEPT !.timers = L.timers])
  /\ Derived(i, op, names)

\* a derivation that also assigns the new scope to currentScope of its caller
Derive_rescopes(i, op, names, scope) ==
  LET L == loggers[i] IN
  /\ Objects < MaxObjects
  /\ loggers' = Append([loggers EXCEPT ![i].currentScope = scope],
                       createLogger(spread(L.config,
                                           [scope |-> scope, disabled |-> L.isDisabled])))
  /\ Derived(i, op, names)

\* the createLogger call at the end of scope and of unscope
Derive(i, op, names, scope) ==
  LET L == loggers[i] IN
  /\ Objects < MaxObjects
  /\ loggers' = Append(loggers,
                       createLogger(spread(L.config,
                                           [scope |-> scope, disabled |-> L.isDisabled])))
  /\ Derived(i, op, names)

Scope(i, scopes) == Derive(i, "scope", scopes, newScopesOf(loggers[i].currentScope, scopes))

Unscope(i) == Derive(i, "unscope", <<>>, Undefined)

\* a disable whose flag is shared with the loggers derived from this one
Disable_shared(i) ==
  /\ loggers' = [j \in 1..Len(loggers) |->
                   IF j = i \/ origin[j].parent = i
                   THEN [loggers[j] EXCEPT !.isDisabled = TRUE] ELSE loggers[j]]
  /\ console' = <<>>
  /\ ret' = RetUndefined
  /\ UNCHANGED <<now, origin, running, autoRun, startedAt>>
  /\ Quiet

Disable(i) ==
  /\ loggers' = [loggers EXCEPT ![i].isDisabled = TRUE]
  /\ console' = <<>>
  /\ ret' = RetUndefined
  /\ UNCHANGED <<now, origin, running, autoRun, startedAt>>
  /\ Quiet

Enable(i) ==
  /\ loggers' = [loggers EXCEPT ![i].isDisabled = FALSE]
  /\ console' = <<>>
  /\ ret' = RetUndefined
  /\ UNCHANGED <<now, origin, running, autoRun, startedAt>>
  /\ Quiet

\* time passes between two calls
Tick ==
  /\ now + ClockStep <= MaxClock
  /\ now' = now + ClockStep
  /\ console' = <<>>
  /\ ret' = RetUndefined
  /\ UNCHANGED <<loggers, origin, running, autoRun, startedAt>>
  /\ Quiet

Next ==
  \/ \E i \in Ids, type \in NameInputs, args \in ArgInputs : LogFn(i, type, args, s_caller)
  \/ \E i \in Ids, label \in LabelInputs : Time(i, label, s_caller)
  \/ \E i \in Ids, label \in LabelInputs : TimeEnd(i, label, s_caller)
  \/ \E i \in Ids, scopes \in ScopeInputs : Scope(i, scopes)
  \/ \E i \in Ids : Unscope(i)
  \/ \E i \in Ids : Disable(i)
  \/ \E i \in Ids : Enable(i)
  \/ Tick

Spec == Init /\ [][Next]_vars

(***************************************************************************)
(* The timers of the root logger over spans of a second and more.          *)
(***************************************************************************)
\* a long time passes between two calls
Jump(d) ==
  /\ now + d <= MaxLongClock
  /\ now' = now + d
  /\ console' = <<>>
  /\ ret' = RetUndefined
  /\ UNCHANGED <<loggers, origin, running, autoRun, startedAt>>
  /\ Quiet

NextClock ==
  \/ \E label \in LabelInputs : Time(1, label, s_caller)
  \/ \E label \in LabelInputs : TimeEnd(1, label, s_caller)
  \/ \E d \in {LongStep, OddStep} : Jump(d)

SpecClock == Init /\ [][NextClock]_vars

(***************************************************************************)
(* The runs that start from each kind of argument of createLogger.         *)
(***************************************************************************)
InitCreate ==
  /\ \E arg \in RootArgs : RootWith(arg)
  /\ budget = 0

\* the calls on the logger the program was given, if it was given one
NextCreate ==
  \/ \E type \in NameInputs, args \in ArgInputs : 1 \in Ids /\ LogFn(1, type, args, s_caller)
  \/ \E label \in LabelInputs : 1 \in Ids /\ Time(1, label, s_caller)
  \/ \E label \in LabelInputs : 1 \in Ids /\ TimeEnd(1, label, s_caller)
  \/ 1 \in Ids /\ Disable(1)
  \/ 1 \in Ids /\ Enable(1)
  \/ Tick

SpecCreate == InitCreate /\ [][NextCreate]_vars

(***************************************************************************)
(* The runs of a logger whose prefix function throws, next to a logger     *)
(* that has no prefix.                                                     *)
(***************************************************************************)
ThrowingConfig ==
  [scope |-> Undefined, presets |-> <<>>, prefix |-> Fn(Throws(s_PrefixError))]

PlainConfig == [presets |-> <<>>]

InitThrow ==
  /\ loggers = <<createLogger(ThrowingConfig), createLogger(PlainConfig)>>
  /\ ret = RetLogger(2)
  /\ now = 0
  /\ console = <<>>
  /\ origin = <<[parent |-> 0, op |-> "createLogger", names |-> <<>>, chain |-> <<>>,
                 given |-> "object"],
                [parent |-> 0, op |-> "createLogger", names |-> <<>>, chain |-> <<>>,
                 given |-> "object"]>>
  /\ running = <<{}, {}>>
  /\ autoRun = <<0, 0>>
  /\ startedAt = <<{}, {}>>
  /\ budget = 0
  /\ calls = <<>>
  /\ output = <<>>

SpecThrow == InitThrow /\ [][Next]_vars

(***************************************************************************)
(* The runs that look at the text of the lines: more configurations, no    *)
(* timers, and buildMessage applied to any type name.                      *)
(***************************************************************************)
NumFormats == 7

\* a badge of two UTF-16 code units (one emoji outside the basic plane)
s_bug == <<"{D83D}", "{DC1B}">>

FormatConfig(n) ==
  CASE n = 1 -> UserConfig(3)
    [] n = 2 -> UserConfig(1)
    [] n = 3 -> [scope |-> Undefined, presets |-> <<>>, colorScope |-> "none"]
    [] n = 4 -> [scope |-> Str(<<>>), presets |-> <<>>]
    [] n = 5 -> [presets |-> <<>>,
                 types |-> [short |-> [badge |-> Null, color |-> "", label |-> s_x],
                            verylong |-> [badge |-> Null, color |-> "",
                                          label |-> s_verylong]]]
    [] n = 6 -> [presets |-> <<>>,
                 types |-> [success |-> [badge |-> s_bug, color |-> "green",
                                         label |-> s_success]]]
    [] OTHER -> [scope |-> Undefined, presets |-> <<"date">>]

\* scope(), scope('') and scope('a')
FormatScopes == {<<>>, <<<<>>>>, <<s_a>>}
FormatNames == {"log", "success", "debug", "verylong"}

InitFormat ==
  /\ \E n \in 1..NumFormats : RootWith(Object(FormatConfig(n)))
  /\ budget = 0

\* buildMessage(type, ...args) as createLogFn(type) calls it, for any type name
Format_fallback(i, type, args, caller) ==
  LET L == loggers[i] IN
  /\ ret' = RetString(buildMessage(L, IF unknownLogType(L.config, type) THEN "log" ELSE type,
                                   args, now, caller))
  /\ console' = <<>>
  /\ UNCHANGED <<loggers, now, origin, running, autoRun, startedAt>>
  /\ Quiet

Format(i, type, args, caller) ==
  LET L == loggers[i] IN
  /\ ret' = IF unknownLogType(L.config, type) THEN RetThrow(s_UnknownLogType)
            ELSE RetString(buildMessage(L, type, args, now, caller))
  /\ console' = <<>>
  /\ UNCHANGED <<loggers, now, origin, running, autoRun, startedAt>>
  /\ Quiet

NextFormat ==
  \/ \E i \in Ids, type \in FormatNames \cap Methods, args \in ArgInputs :
       LogFn(i, type, args, s_caller)
  \/ \E i \in Ids, type \in FormatNames, args \in ArgInputs : Format(i, type, args, s_caller)
  \/ \E i \in Ids, scopes \in FormatScopes : Scope(i, scopes)
  \/ \E i \in Ids : Unscope(i)

SpecFormat == InitFormat /\ [][NextFormat]_vars

(***************************************************************************)
(* The runs whose calls and lines are kept, call by call.                  *)
(***************************************************************************)
InitOrder ==
  /\ \E n \in 1..NumConfigs : RootWith(Object(UserConfig(n)))
  /\ budget = MaxSteps

NextOrder ==
  \/ \E i \in Ids, type \in TypeInputs \cap Methods :
       budget > 0 /\ LogFn(i, type, <<Str(s_m)>>, s_caller)
  \/ \E i \in Ids : budget > 0 /\ Time(i, Undefined, s_caller)
  \/ \E i \in Ids : budget > 0 /\ TimeEnd(i, Undefined, s_caller)
  \/ \E i \in Ids : budget > 0 /\ Scope(i, <<s_a>>)
  \/ \E i \in Ids : budget > 0 /\ Disable(i)
  \/ \E i \in Ids : budget > 0 /\ Enable(i)
  \/ budget > 0 /\ Tick

SpecOrder == InitOrder /\ [][NextOrder]_vars

(***************************************************************************)
(* What the properties below observe.                                      *)
(***************************************************************************)
\* the logger a scope or unscope step has just returned
Newest == Len(loggers')

bracket(name) == <<"[">> \o name \o <<"]">>

\* the fragments occur in the line one after the other, from position start on
RECURSIVE orderedFrom(_, _, _)
orderedFrom(line, fragments, start) ==
  IF Len(fragments) = 0 THEN TRUE
  ELSE LET f == Head(fragments) IN
       \E p \in start..(Len(line) - Len(f) + 1) :
         /\ SubSeq(line, p, p + Len(f) - 1) = f
         /\ orderedFrom(line, Tail(fragments), p + Len(f))

\* every name a scope can hold here, as written and upper-cased, and the empty name
ScopeNames ==
  LET names == {s_a, s_b, s_r, s_s, s_fxlog}
  IN names \cup {toUpperCase(n) : n \in names} \cup {<<>>}

\* the scope brackets a line shows
renderedFragments(line) == {n \in ScopeNames : includes(line, bracket(n))}

\* the generated label added last, or the label added last when none is generated
mostRecentLabel(timers) ==
  LET keys == mapKeys(timers)
      auto == {n \in 1..Len(keys) : startsWith(keys[n], s_timer_)}
  IN IF auto # {} THEN keys[Max(auto)] ELSE keys[Len(keys)]

(***************************************************************************)
(* Properties.                                                             *)
(***************************************************************************)
\* C1: on an enabled logger, timeEnd(L) for a label L that time() has returned
\* and that no timeEnd has ended since returns the result {label: L, span} and
\* writes exactly one line; timeEnd(L) for a label that is not running, as in
\* a second timeEnd(L) with no time(L) in between, returns undefined, writes
\* no line, and L is no longer tracked.
C1_TimeEndOnce ==
  [][\A i \in Ids : \A label \in LabelInputs :
       (truthy(label) /\ ~loggers[i].isDisabled /\ TimeEnd(i, label, s_caller))
         => IF label.v \in running[i]
            THEN /\ ret'.k = "result"
                 /\ ret'.label = label.v
                 /\ ret'.span >= 0
                 /\ Len(console') = 1
                 /\ ~mapHas(loggers'[i].timers, label.v)
                 /\ label.v \notin running'[i]
            ELSE /\ ret' = RetUndefined
                 /\ console' = <<>>
                 /\ ~mapHas(loggers'[i].timers, label.v)]_vars

\* a timeEnd(x) has returned its result, after the clock moved, and x runs nowhere
C1_Witness ==
  /\ ret.k = "result"
  /\ ret.label = s_x
  /\ ret.span > 0
  /\ Len(console) = 1
  /\ \A i \in Ids : s_x \notin running[i] /\ ~mapHas(loggers[i].timers, s_x)

\* C2: enable() and disable() on one logger change the disabled flag of that
\* logger only: no logger is created, and the flag of every other logger, the
\* parent, the siblings and the loggers derived from it, stays as it was.
C2_FlagIsOwn ==
  [][\A i \in Ids :
       (Enable(i) \/ Disable(i))
         => /\ Len(loggers') = Len(loggers)
            /\ \A j \in Ids \ {i} : loggers'[j].isDisabled = loggers[j].isDisabled]_vars

\* a disabled logger next to its enabled parent, its enabled sibling and its
\* enabled child of earlier
C2_Witness ==
  \E i, j, k \in Ids :
    /\ j # k
    /\ origin[j].parent = i /\ origin[k].parent = i
    /\ ~loggers[j].config.disabled
    /\ loggers[j].isDisabled
    /\ ~loggers[i].isDisabled /\ ~loggers[k].isDisabled

\* C3: a call to a log function, to time or to timeEnd on a logger whose
\* disabled flag is set writes nothing; the flag is set by disabled: true at
\* creation and by disable(), and stays set until enable() clears it; a log
\* function called on a logger whose flag is clear writes one line.
C3_DisabledIsSilent ==
  [][\A i \in Ids :
       /\ (loggers[i].isDisabled /\ (console' # <<>> \/ ~loggers'[i].isDisabled))
            => /\ \A type \in TypeInputs, args \in ArgInputs : ~LogFn(i, type, args, s_caller)
               /\ \A label \in LabelInputs : ~Time(i, label, s_caller)
               /\ \A label \in LabelInputs : ~TimeEnd(i, label, s_caller)
       /\ Disable(i) => loggers'[i].isDisabled
       /\ Enable(i) => ~loggers'[i].isDisabled
       /\ (~loggers[i].isDisabled /\ Len(console') # 1)
            => \A type \in TypeInputs, args \in ArgInputs : ~LogFn(i, type, args, s_caller)]_vars

\* time() on a disabled logger has returned the empty string and written nothing
C3_Witness ==
  /\ ret = RetString(<<>>)
  /\ console = <<>>
  /\ \E i \in Ids : loggers[i].isDisabled

\* C4: timeEnd() without a label, on an enabled logger that tracks a timer,
\* ends the generated label (timer_<n>) that was added last among those
\* tracked, and the label added last when no generated label is tracked.
C4_EndsMostRecent ==
  [][\A i \in Ids : \A label \in LabelInputs :
       (/\ ~truthy(label)
        /\ ~loggers[i].isDisabled
        /\ Len(loggers[i].timers) > 0
        /\ TimeEnd(i, label, s_caller))
         => /\ ret'.k = "result"
            /\ ret'.label = mostRecentLabel(loggers[i].timers)]_vars

\* timeEnd() has ended timer_0 on a logger that tracks timer_1, added after it
C4_Witness ==
  /\ ret.k = "result"
  /\ ret.label = s_timer_ \o toString(0)
  /\ \E i \in Ids : mapKeys(loggers[i].timers) = <<s_timer_ \o toString(1)>>

\* C5: on an enabled logger with no tracked timer, the N-th time() without a
\* label in a row returns timer_<N-1>, and after it exactly the N labels
\* timer_0 .. timer_<N-1> are tracked, in that order.
C5_GeneratedLabels ==
  [][\A i \in Ids : \A label \in LabelInputs :
       (/\ ~truthy(label)
        /\ ~loggers[i].isDisabled
        /\ autoRun[i] >= 0
        /\ Time(i, label, s_caller))
         => /\ ret' = RetString(s_timer_ \o toString(autoRun[i]))
            /\ autoRun'[i] = autoRun[i] + 1
            /\ mapKeys(loggers'[i].timers)
                 = [n \in 1..autoRun'[i] |-> s_timer_ \o toString(n - 1)]]_vars

\* the second time() in a row has returned timer_1 and two timers are tracked
C5_Witness ==
  /\ ret = RetString(s_timer_ \o toString(1))
  /\ \E i \in Ids : autoRun[i] = 2 /\ Len(loggers[i].timers) = 2

\* C6 (as stated): scope(...names) returns a logger whose scope is the scope of
\* the caller with the names appended when that scope is a sequence, else the
\* one name as a plain string when exactly one name is given, else the names
\* as a sequence.
C6_ScopeOfAsStated ==
  [][\A i \in Ids : \A scopes \in ScopeInputs :
       Scope(i, scopes)
         => loggers'[Newest].currentScope
              = IF loggers[i].currentScope.k = "array"
                THEN Arr(loggers[i].currentScope.v \o scopes)
                ELSE IF Len(scopes) = 1 THEN Str(scopes[1]) ELSE Arr(scopes)]_vars

\* C6: scope(...names) returns a logger whose scope is a sequence: the scope of
\* the caller with the names appended when that scope is a sequence, else the
\* names alone, one name giving a sequence of one element and not a string.
C6_ScopeOf ==
  [][\A i \in Ids : \A scopes \in ScopeInputs :
       Scope(i, scopes)
         => loggers'[Newest].currentScope
              = Arr((IF loggers[i].currentScope.k = "array"
                     THEN loggers[i].currentScope.v ELSE <<>>) \o scopes)]_vars

\* scope('a') on a logger whose scope is a string has returned a logger whose
\* scope is the sequence of the one name
C6_Witness ==
  \E j \in Ids :
    /\ origin[j].op = "scope"
    /\ origin[j].names = <<s_a>>
    /\ loggers[origin[j].parent].currentScope.k = "string"
    /\ loggers[j].currentScope = Arr(<<s_a>>)
    /\ ret = RetLogger(j)

\* C7 (as stated): the lines a logger reached by scope(n1)...scope(nk) logs
\* contain the fragments [n1] .. [nk], one after the other in chain order.
C7_ChainAsStated ==
  [][\A j \in Ids : \A type \in TypeInputs, args \in ArgInputs :
       (/\ Len(origin[j].chain) > 0
        /\ ~loggers[j].isDisabled
        /\ LogFn(j, type, args, s_caller))
         => /\ Len(console') = 1
            /\ orderedFrom(console'[1],
                           [n \in 1..Len(origin[j].chain) |-> bracket(origin[j].chain[n])],
                           1)]_vars

\* C7: the lines a logger reached by scope(n1)...scope(nk) logs contain one
\* fragment per name, one after the other in chain order: [n] as written, and
\* [N] in upper case when the uppercase configuration lists 'scope'.
C7_Chain ==
  [][\A j \in Ids : \A type \in TypeInputs, args \in ArgInputs :
       (/\ Len(origin[j].chain) > 0
        /\ ~loggers[j].isDisabled
        /\ LogFn(j, type, args, s_caller))
         => /\ Len(console') = 1
            /\ orderedFrom(console'[1],
                           [n \in 1..Len(origin[j].chain) |->
                              bracket(IF arrayIncludes(loggers[j].config.uppercase, "scope")
                                      THEN toUpperCase(origin[j].chain[n])
                                      ELSE origin[j].chain[n])],
                           1)]_vars

\* the logger reached by scope('a').scope('b') has logged a line with [a] before [b]
C7_Witness ==
  /\ ret = RetUndefined
  /\ Len(console) = 1
  /\ orderedFrom(console[1], <<bracket(s_a), bracket(s_b)>>, 1)
  /\ \E j \in Ids :
       /\ origin[j].op = "scope" /\ origin[j].names = <<s_b>>
       /\ origin[origin[j].parent].op = "scope"
       /\ origin[origin[j].parent].names = <<s_a>>
       /\ ~loggers[j].isDisabled

\* C8: unscope(), after any chain of scope() calls and for a string, a sequence
\* and the default scope configuration, returns a logger whose scope is
\* undefined, and the lines that logger writes show no scope bracket.
C8_UnscopeClears ==
  [][/\ \A i \in Ids : Unscope(i) => loggers'[Newest].currentScope = Undefined
     /\ \A j \in Ids :
          (/\ origin[j].op = "unscope"
           /\ ~loggers[j].isDisabled
           /\ \/ \E type \in TypeInputs, args \in ArgInputs : LogFn(j, type, args, s_caller)
              \/ \E label \in LabelInputs : Time(j, label, s_caller))
            => /\ Len(console') = 1
               /\ renderedFragments(console'[1]) = {}]_vars

\* the logger unscope() returned for a scoped logger of a scope chain has
\* logged a line, the only enabled logger there is
C8_Witness ==
  /\ ret = RetUndefined
  /\ Len(console) = 1
  /\ renderedFragments(console[1]) = {}
  /\ \E j \in Ids :
       /\ origin[j].op = "unscope"
       /\ origin[origin[j].parent].op = "scope"
       /\ truthy(loggers[origin[j].parent].currentScope)
       /\ ~loggers[j].isDisabled
       /\ \A i \in Ids \ {j} : loggers[i].isDisabled

\* C9 (as stated): the lines the logger returned by scope() with no names logs
\* show exactly the scope brackets the lines of the caller show, for a caller
\* whose scope is a string, a sequence or undefined.
C9_EmptyScopeAsStated ==
  [][\A j \in Ids : \A type \in TypeInputs, args \in ArgInputs :
       (/\ origin[j].op = "scope" /\ origin[j].names = <<>>
        /\ ~loggers[j].isDisabled
        /\ LogFn(j, type, args, s_caller))
         => /\ Len(console') = 1
            /\ renderedFragments(console'[1])
                 = renderedFragments(buildMessage(loggers[origin[j].parent],
                                                  type, args, now, s_caller))]_vars

\* C9: the lines the logger returned by scope() with no names logs show exactly
\* the scope brackets the lines of the caller show when the scope of the
\* caller is a sequence or undefined; when it is a string, the scope of the
\* logger returned is the empty sequence and its lines show no scope bracket.
C9_EmptyScope ==
  [][\A j \in Ids : \A type \in TypeInputs, args \in ArgInputs :
       (/\ origin[j].op = "scope" /\ origin[j].names = <<>>
        /\ ~loggers[j].isDisabled
        /\ LogFn(j, type, args, s_caller))
         => /\ Len(console') = 1
            /\ IF loggers[origin[j].parent].currentScope.k = "string"
               THEN /\ loggers[j].currentScope = Arr(<<>>)
                    /\ renderedFragments(console'[1]) = {}
               ELSE renderedFragments(console'[1])
                      = renderedFragments(buildMessage(loggers[origin[j].parent],
                                                       type, args, now, s_caller))]_vars

\* the logger scope() returned for the logger of scope 'fxlog' has logged a
\* line without a scope bracket
C9_Witness ==
  /\ ret = RetUndefined
  /\ Len(console) = 1
  /\ renderedFragments(console[1]) = {}
  /\ Len(loggers) = 2
  /\ origin[2].op = "scope" /\ origin[2].names = <<>>
  /\ loggers[1].currentScope = Str(s_fxlog)
  /\ ~loggers[2].isDisabled

\* C10: the logger scope() or unscope() returns starts with the disabled flag
\* the caller has at the call, whatever the configuration of the caller says,
\* and a later enable() or disable() on the caller leaves the flag of the
\* loggers derived from it as it is.
C10_FlagInherited ==
  [][\A i \in Ids :
       /\ (Unscope(i) \/ \E scopes \in ScopeInputs : Scope(i, scopes))
            => loggers'[Newest].isDisabled = loggers[i].isDisabled
       /\ (Enable(i) \/ Disable(i))
            => \A j \in Ids :
                 origin[j].parent = i => loggers'[j].isDisabled = loggers[j].isDisabled]_vars

\* a logger derived from a logger configured enabled starts disabled, and the
\* caller has been enabled since
C10_Witness ==
  \E j \in Ids :
    /\ origin[j].parent = 1
    /\ ~has(loggers[1].config, "disabled")
    /\ loggers[j].config.disabled
    /\ loggers[j].isDisabled
    /\ ~loggers[1].isDisabled

\* C11: the logger scope() or unscope() returns starts with an empty timer map
\* of its own: the derivation leaves the map of the caller as it is, a step that
\* changes the map of one logger is no time() or timeEnd() on another, and
\* timeEnd(L) on a derived logger for a label that runs on its parent only
\* returns undefined and leaves L tracked on the parent.
C11_TimersAreOwn ==
  [][\A i \in Ids :
       /\ (Unscope(i) \/ \E scopes \in ScopeInputs : Scope(i, scopes))
            => /\ loggers'[Newest].timers = <<>>
               /\ loggers'[i].timers = loggers[i].timers
       /\ \A j \in Ids \ {i} :
            loggers'[j].timers # loggers[j].timers
              => \A label \in LabelInputs :
                   ~(Time(i, label, s_caller) \/ TimeEnd(i, label, s_caller))
       /\ \A label \in LabelInputs :
            (/\ origin[i].parent > 0
             /\ truthy(label)
             /\ ~loggers[i].isDisabled
             /\ label.v \in running[origin[i].parent]
             /\ label.v \notin running[i]
             /\ TimeEnd(i, label, s_caller))
              => /\ ret' = RetUndefined
                 /\ mapHas(loggers'[origin[i].parent].timers, label.v)]_vars

\* time('x') on a derived logger has returned, and its parent tracks no timer
C11_Witness ==
  /\ ret = RetString(s_x)
  /\ \E j \in Ids :
       /\ origin[j].parent > 0
       /\ mapHas(loggers[j].timers, s_x)
       /\ loggers[origin[j].parent].timers = <<>>

\* C12: time() on a disabled logger, with or without a label, returns the empty
\* string, writes nothing and stores no timer: no logger changes; so a label
\* time() was only called with while the logger was disabled is not running,
\* and timeEnd for it on the enabled logger returns undefined.
C12_DisabledTime ==
  [][\A i \in Ids : \A label \in LabelInputs :
       /\ (loggers[i].isDisabled /\ Time(i, label, s_caller))
            => /\ ret' = RetString(<<>>)
               /\ console' = <<>>
               /\ loggers' = loggers
               /\ running' = running
               /\ startedAt' = startedAt
       /\ (/\ truthy(label)
           /\ ~loggers[i].isDisabled
           /\ label.v \notin running[i]
           /\ TimeEnd(i, label, s_caller))
            => ret' = RetUndefined /\ console' = <<>>]_vars

\* time() has returned the empty string, and the disabled logger still tracks
\* the one timer it had
C12_Witness ==
  /\ ret = RetString(<<>>)
  /\ console = <<>>
  /\ \E i \in Ids :
       /\ loggers[i].isDisabled
       /\ mapKeys(loggers[i].timers) = <<s_x>>
       /\ \A j \in Ids \ {i} : ~loggers[j].isDisabled

\* C13: timeEnd() on a disabled logger, with or without a label, returns
\* undefined, writes nothing and takes no timer away: no logger changes;
\* disable() and enable() leave the timers alone, so a timer started before
\* disable() is tracked after enable(), and the timeEnd that then ends it
\* returns the span from the clock of the time() call that started it.
C13_DisabledTimeEnd ==
  [][\A i \in Ids :
       /\ \A label \in LabelInputs :
            (loggers[i].isDisabled /\ TimeEnd(i, label, s_caller))
              => /\ ret' = RetUndefined
                 /\ console' = <<>>
                 /\ loggers' = loggers
                 /\ running' = running
                 /\ startedAt' = startedAt
       /\ (Enable(i) \/ Disable(i))
            => /\ loggers'[i].timers = loggers[i].timers
               /\ running' = running
               /\ startedAt' = startedAt
       /\ \A label \in LabelInputs :
            (/\ truthy(label)
             /\ ~loggers[i].isDisabled
             /\ label.v \in running[i]
             /\ TimeEnd(i, label, s_caller))
              => /\ ret'.k = "result"
                 /\ ret'.span = now - startOf(startedAt[i], label.v)]_vars

\* a disabled logger tracks the timer x, started before the clock moved, after
\* a call that returned undefined and wrote nothing
C13_Witness ==
  /\ ret = RetUndefined
  /\ console = <<>>
  /\ \E i \in Ids :
       /\ loggers[i].isDisabled
       /\ mapHas(loggers[i].timers, s_x)
       /\ s_x \in running[i]
       /\ startOf(startedAt[i], s_x) < now

\* C14: on an enabled logger, timeEnd with a label that is not tracked, and
\* timeEnd without a label when no timer is tracked, returns undefined, throws
\* nothing, writes no line and changes no logger: the timers that run keep
\* their start times.
C14_MissingTimer ==
  [][\A i \in Ids : \A label \in LabelInputs :
       (/\ ~loggers[i].isDisabled
        /\ \/ truthy(label) /\ ~mapHas(loggers[i].timers, label.v)
           \/ ~truthy(label) /\ Len(loggers[i].timers) = 0
        /\ TimeEnd(i, label, s_caller))
         => /\ ret' = RetUndefined
            /\ console' = <<>>
            /\ loggers' = loggers
            /\ running' = running
            /\ startedAt' = startedAt]_vars

\* the one logger tracks timer_0 alone, as it did before a call that returned
\* undefined and wrote nothing broke the run of its label-less calls
C14_Witness ==
  /\ ret = RetUndefined
  /\ console = <<>>
  /\ Len(loggers) = 1
  /\ ~loggers[1].isDisabled
  /\ mapKeys(loggers[1].timers) = <<s_timer_ \o toString(0)>>
  /\ startOf(startedAt[1], s_timer_ \o toString(0)) = 0
  /\ autoRun[1] = -1

\* the text of a duration of a second or more: the seconds with two decimals,
\* a hundredth nearest to the span, and 's'
secondsTexts(span) ==
  {toString(c \div 100) \o <<".">> \o padStart0(toString(c % 100), 2) \o <<"s">> :
     c \in {c \in {span \div 10, (span \div 10) + 1} :
              10 * c - span <= 5 /\ span - 10 * c <= 5}}

\* C15: a timeEnd that ends the timer L returns the span from the clock of the
\* latest time() call that stored L to the clock of this call, whatever other
\* timers were started or ended in between, and writes the duration as
\* '<span>ms' when the span is under 1000 and as the seconds with exactly two
\* decimals and 's' when it is 1000 or more (1500 as 1.50s, 1000 as 1.00s).
C15_SpanAndFormat ==
  [][\A label \in LabelInputs :
       (~loggers[1].isDisabled /\ ret'.k = "result" /\ TimeEnd(1, label, s_caller))
         => /\ ret'.span = now - startOf(startedAt[1], ret'.label)
            /\ Len(console') = 1
            /\ IF ret'.span < 1000
               THEN includes(console'[1],
                             chalk("yellow", toString(ret'.span) \o <<"m", "s">>))
               ELSE \E text \in secondsTexts(ret'.span) :
                      includes(console'[1], chalk("yellow", text))]_vars

\* a timer has run for 1500 ms and its line says 1.50s, while another timer,
\* started after it, still runs
C15_Witness ==
  /\ ret.k = "result"
  /\ ret.span = 1500
  /\ Len(console) = 1
  /\ includes(console[1], chalk("yellow", <<"1", ".", "5", "0", "s">>))
  /\ \E e \in startedAt[1] : e.at > 0

(***************************************************************************)
(* C16: the effective configuration takes every top-level field of the     *)
(* user configuration over the default one, but types is merged key by     *)
(* key: a user entry overrides or adds, a default entry that is not        *)
(* mentioned survives.  So the types of every logger, derived ones         *)
(* included, hold log, info, success, warn and error.                      *)
(***************************************************************************)
\* config is what the claim says the merge of the user configuration u is
mergedAsClaimed(u, config) ==
  LET userTypes == IF "types" \in DOMAIN u THEN u.types ELSE <<>> IN
  /\ DOMAIN config = (DOMAIN defaultConfig) \cup (DOMAIN u)
  /\ \A f \in (DOMAIN u) \ {"types"} : config[f] = u[f]
  /\ \A f \in (DOMAIN defaultConfig) \ ((DOMAIN u) \cup {"types"}) :
        config[f] = defaultConfig[f]
  /\ DOMAIN config.types = (DOMAIN defaultConfig.types) \cup (DOMAIN userTypes)
  /\ \A t \in DOMAIN userTypes : config.types[t] = userTypes[t]
  /\ \A t \in (DOMAIN defaultConfig.types) \ (DOMAIN userTypes) :
        config.types[t] = defaultConfig.types[t]

\* the argument of the createLogger call that made logger i
passedTo(i) ==
  spread(loggers[origin[i].parent].config,
         [scope |-> loggers[i].config.scope, disabled |-> loggers[i].config.disabled])

C16_MergedConfig ==
  \A i \in Ids :
    /\ {"log", "info", "success", "warn", "error"} \subseteq DOMAIN loggers[i].config.types
    /\ IF origin[i].parent = 0
       THEN \E n \in 1..NumConfigs : mergedAsClaimed(UserConfig(n), loggers[i].config)
       ELSE mergedAsClaimed(passedTo(i), loggers[i].config)

\* a derived logger whose types hold an added entry, an overridden one and a default one
C16_Witness ==
  \E i \in Ids :
    /\ origin[i].parent # 0
    /\ "debug" \in DOMAIN loggers[i].config.types
    /\ loggers[i].config.types["warn"].label = s_care
    /\ loggers[i].config.types["log"] = defaultConfig.types["log"]
    /\ loggers[i].config.presets = <<"date">>

(***************************************************************************)
(* C17: for every type name in the merged types, the ones the user         *)
(* supplied (debug, trace) included, the logger has a logging method of    *)
(* that name, and a call of it writes one line with the badge and the      *)
(* label of the type.                                                      *)
(***************************************************************************)
C17_MethodPerType ==
  [][\A i \in Ids : \A type \in NameInputs : \A args \in ArgInputs :
       (/\ type \in DOMAIN loggers[i].config.types
        /\ ~loggers[i].isDisabled
        /\ LogFn(i, type, args, s_caller))
       => /\ ret' = RetUndefined
          /\ console' = <<buildMessage(loggers[i], type, args, now, s_caller)>>]_vars

\* the call of debug on an enabled logger whose types hold debug has thrown
C17_Witness ==
  /\ Len(loggers) = 1
  /\ "debug" \in DOMAIN loggers[1].config.types
  /\ ~loggers[1].isDisabled
  /\ loggers[1].timers = <<>>
  /\ ret = RetThrow(s_TypeError)
  /\ console = <<>>

(***************************************************************************)
(* C18: createLogger called with no configuration, with undefined, with    *)
(* null or with {} does not throw, and the logger it returns behaves as    *)
(* the one built from the full default configuration.                      *)
(***************************************************************************)
C18_EmptyIsDefault ==
  origin[1].given \in {"absent", "undefined", "null", "empty"}
  => /\ Len(loggers) >= 1
     /\ [loggers[1] EXCEPT !.timers = <<>>, !.isDisabled = FALSE]
          = createLogger(defaultConfig)

\* the construction from null has thrown and has left no logger
C18_Witness ==
  /\ origin[1].given = "null"
  /\ loggers = <<>>
  /\ ret = RetThrow(s_TypeError)

linesOf(c) ==
  IF ~c.enabled THEN <<>>
  ELSE CASE c.op = "log" ->
              <<buildMessage(loggers[c.id], c.type, c.args, c.at, s_caller)>>
         [] c.op = "time" -> <<timeLine(loggers[c.id], c.label, c.at, s_caller)>>
         [] OTHER -> IF c.ret.k = "result"
                     THEN <<timeEndLine(loggers[c.id], c.label, c.ret.span, c.at, s_caller)>>
                     ELSE <<>>

linesOfAll(cs) ==
  LET RECURSIVE upTo(_)
      upTo(n) == IF n = 0 THEN <<>> ELSE upTo(n - 1) \o linesOf(cs[n])
  IN upTo(Len(cs))

C20_InCallOrder == output = linesOfAll(calls)

\* two loggers have written different lines, and a call on a disabled logger came between
C20_Witness ==
  \E a, b, c \in DOMAIN calls :
    /\ a < c /\ c < b
    /\ calls[a].id # calls[b].id
    /\ calls[a].enabled /\ calls[b].enabled
    /\ calls[a].op = "log" /\ calls[b].op = "log"
    /\ ~calls[c].enabled /\ calls[c].op = "log"
    /\ Len(output) = 2
    /\ output[1] # output[2]

(***************************************************************************)
(* C21: a line written by a logging method is its fragments joined by one  *)
(* space, in this order: the values of the static prefix, if there is one, *)
(* then one fragment for each preset in the order the presets are          *)
(* declared, then the fragment of the badge and the label, then the body   *)
(* of the message.                                                         *)
(***************************************************************************)
\* one fragment for each preset of the configuration, in the declared order
presetFragments(L, t) ==
  [n \in 1..Len(L.config.presets) |-> presetValue(L.config.presets[n], L.config, t, s_caller)]

\* the badge and the label of a type, as wide as the label column, with their styles
labelFragment(L, type) ==
  LET typeConfig == L.config.types[type]
      label == IF arrayIncludes(L.config.uppercase, "label")
               THEN toUpperCase(typeConfig.label) ELSE typeConfig.label
      column == padEnd(IF Len(typeConfig.badge) > 0
                       THEN typeConfig.badge \o <<" ">> \o label ELSE label,
                       L.longestLabel + 2)
      styled == IF arrayIncludes(L.config.underline, "label")
                THEN chalk("underline", column) ELSE column
  IN IF typeConfig.color \in ChalkColors THEN chalk(typeConfig.color, styled) ELSE styled

\* the arguments, joined by one space, with the style of the message
bodyFragment(L, args) ==
  LET body == join([n \in 1..Len(args) |-> stringify(args[n])], <<" ">>)
  IN IF arrayIncludes(L.config.underline, "message") THEN chalk("underline", body) ELSE body

\* the statement as it stands: no fragment but the four it names
C21_FragmentsAsStated ==
  [][\A i \in Ids : \A type \in FormatNames \cap Methods, args \in ArgInputs :
       (~loggers[i].isDisabled /\ LogFn(i, type, args, s_caller))
         => console' = <<join(userPrefixParts(loggers[i].config)
                                \o presetFragments(loggers[i], now)
                                \o <<labelFragment(loggers[i], type),
                                     bodyFragment(loggers[i], args)>>,
                              <<" ">>)>>]_vars

\* the order that holds: the scope brackets, as one fragment, come after the presets
C21_Fragments ==
  [][\A i \in Ids : \A type \in FormatNames \cap Methods, args \in ArgInputs :
       (~loggers[i].isDisabled /\ LogFn(i, type, args, s_caller))
         => console' = <<join(userPrefixParts(loggers[i].config)
                                \o presetFragments(loggers[i], now)
                                \o scopeParts(loggers[i].currentScope, loggers[i].config)
                                \o <<labelFragment(loggers[i], type),
                                     bodyFragment(loggers[i], args)>>,
                              <<" ">>)>>]_vars

\* a line with two prefix values, a preset, two scope brackets, a label and a body
C21_Witness ==
  /\ Len(console) = 1
  /\ ret = RetUndefined
  /\ \E i \in Ids :
       /\ Len(userPrefixParts(loggers[i].config)) = 2
       /\ loggers[i].config.presets = <<"date">>
       /\ loggers[i].currentScope = Arr(<<s_r, s_s>>)
       /\ \E type \in FormatNames \cap Methods, args \in ArgInputs :
            console[1] = buildMessage(loggers[i], type, args, now, s_caller)

(***************************************************************************)
(* C22: for every logger and every configured type, with a badge or        *)
(* without, default or defined by the user, the label column has the same  *)
(* width, set by the longest label of the configured types, so the body    *)
(* of the message starts at the same column for all types.                 *)
(***************************************************************************)
StyleTokens ==
  {"<" \o c \o ">" : c \in ChalkColors \cup {"underline"}}
    \cup {"</" \o c \o ">" : c \in ChalkColors \cup {"underline"}}

\* the characters of a line that take room on the terminal line
visible(line) == SelectSeq(line, LAMBDA c : c \notin StyleTokens)

\* the column at which the body starts in the line of a call with these arguments
bodyColumn(L, type, args, t) ==
  Len(visible(buildMessage(L, type, args, t, s_caller))) - Len(visible(bodyFragment(L, args)))

C22_SameColumn ==
  [][\A i \in Ids : \A type \in FormatNames \cap Methods, args \in ArgInputs :
       (~loggers[i].isDisabled /\ LogFn(i, type, args, s_caller))
         => /\ Len(console') = 1
            /\ \A other \in DOMAIN loggers[i].config.types :
                 Len(visible(console'[1])) - Len(visible(bodyFragment(loggers[i], args)))
                   = bodyColumn(loggers[i], other, args, now)]_vars

\* success, with a badge of two code units on the longest label, has written its line
C22_Witness ==
  /\ Len(console) = 1
  /\ \E i \in Ids :
       /\ loggers[i].config.types["success"].badge = s_bug
       /\ console[1] = buildMessage(loggers[i], "success", <<Str(s_m), Num(7)>>, now, s_caller)
       /\ bodyColumn(loggers[i], "success", <<>>, now) = bodyColumn(loggers[i], "log", <<>>, now) + 1

(***************************************************************************)
(* C23: when colorScope is 'none', no part of a line written by a logging  *)
(* method has a color, whatever the type and its configured color; when    *)
(* colorScope is 'all', the whole line is wrapped in the color of the      *)
(* type.                                                                   *)
(***************************************************************************)
ColorTokens ==
  {"<" \o c \o ">" : c \in ChalkColors} \cup {"</" \o c \o ">" : c \in ChalkColors}

colored(line) == \E n \in DOMAIN line : line[n] \in ColorTokens

\* line is some text wrapped, as a whole, in color
wrappedIn(color, line) ==
  /\ Len(line) >= 2
  /\ line[1] = "<" \o color \o ">"
  /\ line[Len(line)] = "</" \o color \o ">"

C23_ColorScope ==
  [][\A i \in Ids : \A type \in FormatNames \cap Methods, args \in ArgInputs :
       (~loggers[i].isDisabled /\ LogFn(i, type, args, s_caller))
         => /\ Len(console') = 1
            /\ loggers[i].config.colorScope = "none" => ~colored(console'[1])
            /\ (/\ loggers[i].config.colorScope = "all"
                /\ loggers[i].config.types[type].color \in ChalkColors)
               => wrappedIn(loggers[i].config.types[type].color, console'[1])]_vars

\* a logger whose colorScope is 'none' has written a line with a green label
C23_Witness ==
  /\ Len(console) = 1
  /\ \E i \in Ids :
       /\ loggers[i].config.colorScope = "none"
       /\ console[1] = buildMessage(loggers[i], "success", <<Str(s_m), Num(7)>>, now, s_caller)
       /\ colored(console[1])

(***************************************************************************)
(* C24: a logger whose scope is the empty string, from scope: '' in the    *)
(* configuration or from scope(''), writes the scope fragment '[]' on      *)
(* every line; any other fragment with no content is left out, and is not  *)
(* written as empty brackets.                                              *)
(***************************************************************************)
\* the scope of the logger is, or ends with, the empty string
hasEmptyScope(L) ==
  \/ L.currentScope = Str(<<>>)
  \/ /\ L.currentScope.k = "array"
     /\ \E n \in DOMAIN L.currentScope.v : L.currentScope.v[n] = <<>>

C24_EmptyScopeBrackets ==
  [][\A i \in Ids : \A type \in FormatNames \cap Methods, args \in ArgInputs :
       (~loggers[i].isDisabled /\ LogFn(i, type, args, s_caller))
         => /\ Len(console') = 1
            /\ hasEmptyScope(loggers[i]) <=> includes(console'[1], <<"[", "]">>)]_vars

\* the root made with scope: '' has written a line that has no brackets
C24_Witness ==
  /\ Len(console) = 1
  /\ \E i \in Ids :
       /\ origin[i].parent = 0
       /\ loggers[i].config.scope = Str(<<>>)
       /\ console[1] = buildMessage(loggers[i], "log", <<Str(s_m), Num(7)>>, now, s_caller)
       /\ ~includes(console[1], <<"[", "]">>)

(***************************************************************************)
(* C25: formatting a message for a type name that the merged types do not  *)
(* hold fails with the error 'Unknown log type', which reaches the caller, *)
(* and nothing is written; formatting for a type name that they hold       *)
(* never fails with this error.                                            *)
(***************************************************************************)
C25_UnknownType ==
  [][\A i \in Ids : \A type \in FormatNames, args \in ArgInputs :
       Format(i, type, args, s_caller)
         => /\ console' = <<>>
            /\ IF type \in DOMAIN loggers[i].config.types
               THEN ret' # RetThrow(s_UnknownLogType) /\ ret'.k = "string"
               ELSE ret' = RetThrow(s_UnknownLogType)]_vars

\* the format of a type name the types do not hold has failed, on a logger that has custom types
C25_Witness ==
  /\ ret = RetThrow(s_UnknownLogType)
  /\ console = <<>>
  /\ \E i \in Ids : "verylong" \in DOMAIN loggers[i].config.types
  /\ \A i \in Ids : "debug" \notin DOMAIN loggers[i].config.types

(***************************************************************************)
(* C26: the date fragment is written as [YYYY-MM-DD HH:mm:ss.mmm]: at      *)
(* every clock value the month, the day, the hour, the minute and the      *)
(* second have two digits each, padded with zeros, and the milliseconds    *)
(* have three.                                                             *)
(***************************************************************************)
\* the clock t in the form the claim gives
stamp(t) ==
  LET date == Date(t) IN
  <<"[">> \o toString(date.getFullYear) \o <<"-">>
    \o padStart0(toString(date.getMonth + 1), 2) \o <<"-">>
    \o padStart0(toString(date.getDate), 2) \o <<" ">>
    \o padStart0(toString(date.getHours), 2) \o <<":">>
    \o padStart0(toString(date.getMinutes), 2) \o <<":">>
    \o padStart0(toString(date.getSeconds), 2) \o <<".">>
    \o padStart0(toString(date.getMilliseconds), 3) \o <<"]">>

C26_DateFragment ==
  [][\A i \in Ids : \A type \in FormatNames \cap Methods, args \in ArgInputs :
       (/\ ~loggers[i].isDisabled
        /\ arrayIncludes(loggers[i].config.presets, "date")
        /\ LogFn(i, type, args, s_caller))
         => /\ Len(console') = 1
            /\ includes(console'[1], stamp(now))]_vars

\* a line whose date fragment is the date alone, with a month and a day of one digit
C26_Witness ==
  /\ Len(console) = 1
  /\ \E i \in Ids : loggers[i].config.presets = <<"date">> /\ ~truthy(loggers[i].currentScope)
  /\ includes(console[1], <<"[", "1", "9", "7", "0", "-", "1", "-", "1", "]">>)

(***************************************************************************)
(* C27: on an enabled logger, time(L) for a label L that is tracked puts   *)
(* the current clock in the place of the start of L and leaves the number  *)
(* of tracked timers as it is; the timeEnd(L) that follows reports the     *)
(* span since the second time(L), and one timeEnd(L) untracks L.           *)
(***************************************************************************)
C27_RestartOverwrites ==
  [][\A i \in Ids : \A label \in LabelInputs :
       /\ (/\ ~loggers[i].isDisabled
           /\ truthy(label)
           /\ mapHas(loggers[i].timers, label.v)
           /\ Time(i, label, s_caller))
          => /\ mapKeys(loggers'[i].timers) = mapKeys(loggers[i].timers)
             /\ mapGet(loggers'[i].timers, label.v) = now
       /\ (/\ ~loggers[i].isDisabled
           /\ truthy(label)
           /\ ret'.k = "result"
           /\ TimeEnd(i, label, s_caller))
          => /\ ret'.label = label.v
             /\ ret'.span = now - startOf(startedAt[i], label.v)
             /\ ~mapHas(loggers'[i].timers, label.v)]_vars

\* x was started before timer_1 and started again after it: its start is the later clock
C27_Witness ==
  \E i \in Ids :
    /\ Len(loggers[i].timers) = 2
    /\ loggers[i].timers[1].key = s_x
    /\ loggers[i].timers[1].value > loggers[i].timers[2].value
    /\ ret = RetString(s_x)

(***************************************************************************)
(* C28: after any sequence of time and timeEnd calls, with labels or       *)
(* without, on an enabled logger, a time() without a label returns a label *)
(* that was not tracked right before the call: a generated label never     *)
(* overwrites the start of a timer that still runs.                        *)
(***************************************************************************)
C28_GeneratedLabelIsFresh ==
  [][\A i \in Ids : \A label \in LabelInputs :
       (/\ ~loggers[i].isDisabled
        /\ ~truthy(label)
        /\ Time(i, label, s_caller))
         => /\ ret'.k = "string"
            /\ ~mapHas(loggers[i].timers, ret'.label)
            /\ Len(loggers'[i].timers) = Len(loggers[i].timers) + 1]_vars

\* time() has returned timer_1 while timer_1 was the one timer tracked
C28_Witness ==
  \E i \in Ids :
    /\ mapKeys(loggers[i].timers) = <<s_timer_ \o toString(1)>>
    /\ ret = RetString(s_timer_ \o toString(1))
    /\ loggers[i].timers[1].value = now
    /\ now > 0

(***************************************************************************)
(* C29: if time(L) or timeEnd(L) fails because the prefix function throws, *)
(* the timer map is left as it was before the call: a time(L) that fails   *)
(* records no start for L, and a timeEnd(L) that fails leaves L tracked,   *)
(* so that a later timeEnd(L) can still return its result.                 *)
(***************************************************************************)
C29_FailedTimerCallKeepsMap ==
  [][\A i \in Ids : \A label \in LabelInputs :
       (/\ ret' = RetThrow(s_PrefixError)
        /\ Time(i, label, s_caller) \/ TimeEnd(i, label, s_caller))
         => loggers'[i].timers = loggers[i].timers]_vars

\* time('x') has failed and x is tracked
C29_Witness ==
  /\ ret = RetThrow(s_PrefixError)
  /\ prefixThrows(loggers[1].config)
  /\ mapKeys(loggers[1].timers) = <<s_x>>
  /\ running[1] = {}

(***************************************************************************)
(* C30: scope() and unscope() leave the logger they are called on as it    *)
(* was: its scope, its disabled flag and its timer map are the same after  *)
(* the call as before; and no operation, log methods, time, timeEnd,       *)
(* enable, disable, scope and unscope, ever changes the scope of a logger  *)
(* that exists.                                                            *)
(***************************************************************************)
C30_CallerUnchanged ==
  [][\A i \in Ids :
       /\ loggers'[i].currentScope = loggers[i].currentScope
       /\ loggers'[i].config.scope = loggers[i].config.scope
       /\ (\/ loggers'[i].isDisabled # loggers[i].isDisabled
           \/ loggers'[i].timers # loggers[i].timers)
          => /\ ~Unscope(i)
             /\ \A scopes \in ScopeInputs : ~Scope(i, scopes)]_vars

\* a logger with a scope and a running timer has made a scoped logger, and has kept both
C30_Witness ==
  \E i, j \in Ids :
    /\ ret = RetLogger(j)
    /\ origin[j].parent = i /\ origin[j].op = "scope"
    /\ Len(loggers[i].timers) = 1
    /\ loggers[i].currentScope = Arr(<<s_r, s_s>>)
    /\ loggers[j].currentScope = Arr(<<s_r, s_s, s_a>>)
    /\ loggers[j].timers = <<>>

====
